---------------------------- MODULE Spec2Model ----------------------------
(***************************************************************************)
(* Model of collector/sriov_net_linux.go: the SR-IOV network collector.    *)
(*                                                                         *)
(* The collector reads sysfs and writes counter metrics to the channel the *)
(* host hands to Update.  The state is the sysfs snapshot, the position of *)
(* Update in its loop over the discovered PFs, the metrics sent so far and *)
(* the outcome of the pass.                                                *)
(*                                                                         *)
(* File contents, directory entry names and link targets are sequences of  *)
(* one-character strings, so that trimming, slicing and parsing are        *)
(* computed as the Go library computes them.  PCI device names, interface  *)
(* names and statistic file names are only compared and copied by the      *)
(* code; they are TLA+ strings.                                            *)
(***************************************************************************)
EXTENDS Integers, Sequences, FiniteSets, Bags, TLC

VARIABLES
    fs,          \* the sysfs snapshot (see the section "sysfs")
    pc,          \* position of Update: "idle", "loop", "returned", "panicked"
    pfList,      \* Update's pfList (line 70)
    idx,         \* 1-based position of the range loop of line 74 in pfList
    sink,        \* bag of the metrics sent to ch during the current pass
    result,      \* what the pass returned: "none" (running), "nil", an error text, "panic"
    calls,       \* the helper calls made for each PF during the current pass
    passes,      \* number of passes started
    prevSink,    \* sink of the previous pass
    prevResult,  \* result of the previous pass
    ret          \* return value of the helper last called on its own

vars == <<fs, pc, pfList, idx, sink, result, calls, passes, prevSink, prevResult, ret>>

-----------------------------------------------------------------------------
(* Characters and strings                                                  *)

Digits == <<"0", "1", "2", "3", "4", "5", "6", "7", "8", "9">>
LowerAlpha == <<"a", "b", "c", "d", "e", "f", "g", "h", "i", "j", "k", "l", "m",
                "n", "o", "p", "q", "r", "s", "t", "u", "v", "w", "x", "y", "z">>
UpperAlpha == <<"A", "B", "C", "D", "E", "F", "G", "H", "I", "J", "K", "L", "M",
                "N", "O", "P", "Q", "R", "S", "T", "U", "V", "W", "X", "Y", "Z">>

IndexOf(c, seq) == IF \E i \in 1..Len(seq) : seq[i] = c
                   THEN CHOOSE i \in 1..Len(seq) : seq[i] = c
                   ELSE 0

\* strconv's lower(c)
lower(c) == IF IndexOf(c, UpperAlpha) > 0 THEN LowerAlpha[IndexOf(c, UpperAlpha)] ELSE c

IsDigit(c) == IndexOf(c, Digits) > 0

LetterVal(i) == IF i > 0 THEN i + 9 ELSE 99

\* value of c as a digit in bases up to 36, or 99 when c is no digit
DigitVal(c) == IF IsDigit(c) THEN IndexOf(c, Digits) - 1
               ELSE LetterVal(IndexOf(lower(c), LowerAlpha))

\* the white space of strings.TrimSpace that the model's contents use
IsSpace(c) == c \in {" ", "\n", "\t", "\r"}

Drop(s, n) == SubSeq(s, n + 1, Len(s))

RECURSIVE TrimLeft(_)
TrimLeft(s) == IF s # <<>> /\ IsSpace(s[1]) THEN TrimLeft(Tail(s)) ELSE s

RECURSIVE TrimRight(_)
TrimRight(s) == IF s # <<>> /\ IsSpace(s[Len(s)])
                THEN TrimRight(SubSeq(s, 1, Len(s) - 1))
                ELSE s

\* strings.TrimSpace
TrimSpace(s) == TrimRight(TrimLeft(s))

HasPrefix(s, p) == Len(s) >= Len(p) /\ SubSeq(s, 1, Len(p)) = p

-----------------------------------------------------------------------------
(* strconv.ParseInt(s, 0, 64)                                              *)

\* the text after an optional sign
Unsigned(s) == IF s # <<>> /\ s[1] \in {"+", "-"} THEN Tail(s) ELSE s

\* strconv.underscoreOK: underscores only between digits or after a base prefix
RECURSIVE UnderscoreScan(_, _, _)
UnderscoreScan(s, saw, hex) ==
    IF s = <<>> THEN saw # "_"
    ELSE IF IsDigit(s[1]) \/ (hex /\ DigitVal(s[1]) \in 10..15)
         THEN UnderscoreScan(Tail(s), "0", hex)
    ELSE IF s[1] = "_"
         THEN IF saw # "0" THEN FALSE ELSE UnderscoreScan(Tail(s), "_", hex)
    ELSE IF saw = "_" THEN FALSE
    ELSE UnderscoreScan(Tail(s), "!", hex)

UnderscoreFrom(s) ==
    IF Len(s) >= 2 /\ s[1] = "0" /\ lower(s[2]) \in {"b", "o", "x"}
    THEN UnderscoreScan(Drop(s, 2), "0", lower(s[2]) = "x")
    ELSE UnderscoreScan(s, "^", FALSE)

underscoreOK(s0) == UnderscoreFrom(Unsigned(s0))

\* The digit loop of ParseUint.  Values are kept below IntLimit: a longer
\* number is reported as IntLimit, which is larger than every constant of the
\* program, and never wrapped.
IntLimit == 100000000

RECURSIVE DigitLoop(_, _, _)
DigitLoop(s, base, n) ==
    IF s = <<>> THEN [ok |-> TRUE, val |-> n]
    ELSE IF s[1] = "_" THEN DigitLoop(Tail(s), base, n)
    ELSE IF DigitVal(s[1]) >= base THEN [ok |-> FALSE, val |-> 0]
    ELSE IF n >= IntLimit THEN DigitLoop(Tail(s), base, IntLimit)
    ELSE DigitLoop(Tail(s), base, n * base + DigitVal(s[1]))

NoInt == [ok |-> FALSE, val |-> 0]

PrefixBase(c) == IF c = "b" THEN 2 ELSE IF c = "o" THEN 8 ELSE 16

\* the base-0 prefix rule of ParseUint on a non-empty s: [base, body]
BasePrefix(s) ==
    IF s[1] # "0" THEN [base |-> 10, body |-> s]
    ELSE IF Len(s) >= 3 /\ lower(s[2]) \in {"b", "o", "x"}
         THEN [base |-> PrefixBase(lower(s[2])), body |-> Drop(s, 2)]
    ELSE [base |-> 8, body |-> Drop(s, 1)]

CheckInt(s0, neg, body, r) ==
    IF ~r.ok THEN NoInt
    ELSE IF (\E i \in 1..Len(body) : body[i] = "_") /\ ~underscoreOK(s0) THEN NoInt
    ELSE [ok |-> TRUE, val |-> IF neg THEN 0 - r.val ELSE r.val]

ParseUint(s0, neg, bp) == CheckInt(s0, neg, bp.body, DigitLoop(bp.body, bp.base, 0))

\* ParseInt with base 0 and bit size 64: [ok, val]
ParseInt(s0) ==
    IF Unsigned(s0) = <<>> THEN NoInt
    ELSE ParseUint(s0, s0[1] = "-", BasePrefix(Unsigned(s0)))

-----------------------------------------------------------------------------
(* strconv.ParseFloat(s, 64), decimal and special forms                    *)
(*                                                                         *)
(* A value is [kind, m, e]: kind "finite" stands for m * 10^e with m not   *)
(* a multiple of 10 (or m = e = 0); the kinds "+Inf", "-Inf" and "NaN" are *)
(* the special values.  A hexadecimal mantissa needs a 'p' exponent in Go; *)
(* no content of the model has one, and every other text starting 0x is    *)
(* rejected here as Go rejects it.                                         *)

Float(kind, m, e) == [kind |-> kind, m |-> m, e |-> e]
NoFloat == [ok |-> FALSE, val |-> Float("finite", 0, 0)]

RECURSIVE LowerSeq(_)
LowerSeq(s) == IF s = <<>> THEN <<>> ELSE <<lower(s[1])>> \o LowerSeq(Tail(s))

SpecialOf(neg, signed, t) ==
    IF t = <<"i", "n", "f">> \/ t = <<"i", "n", "f", "i", "n", "i", "t", "y">>
    THEN [ok |-> TRUE, val |-> Float(IF neg THEN "-Inf" ELSE "+Inf", 0, 0)]
    ELSE IF ~signed /\ t = <<"n", "a", "n">>
    THEN [ok |-> TRUE, val |-> Float("NaN", 0, 0)]
    ELSE NoFloat

\* strconv.special on a non-empty s
Special(s) == SpecialOf(s[1] = "-", s[1] \in {"+", "-"}, LowerSeq(Unsigned(s)))

\* the leading digits of s: [n, cnt, rest], n continuing from n0
RECURSIVE ReadDigits(_, _, _)
ReadDigits(s, n0, cnt) ==
    IF s # <<>> /\ IsDigit(s[1])
    THEN ReadDigits(Tail(s), IF n0 >= IntLimit THEN IntLimit ELSE n0 * 10 + DigitVal(s[1]), cnt + 1)
    ELSE [n |-> n0, cnt |-> cnt, rest |-> s]

RECURSIVE Normalize(_, _)
Normalize(m, e) == IF m = 0 THEN [m |-> 0, e |-> 0]
                   ELSE IF m % 10 = 0 THEN Normalize(m \div 10, e + 1)
                   ELSE [m |-> m, e |-> e]

Signed(neg, v) == [ok |-> TRUE, val |-> Float("finite", IF neg THEN 0 - v.m ELSE v.m, v.e)]

\* the whole text must have been consumed
Finish(neg, m, e, rest) == IF rest # <<>> THEN NoFloat ELSE Signed(neg, Normalize(m, e))

ExpValue(neg, fp, eneg, ed) ==
    IF ed.cnt = 0 THEN NoFloat
    ELSE Finish(neg, fp.n, (IF eneg THEN 0 - ed.n ELSE ed.n) - fp.cnt, ed.rest)

ReadExp(neg, icnt, fp) ==
    IF icnt + fp.cnt = 0 THEN NoFloat
    ELSE IF fp.rest # <<>> /\ lower(fp.rest[1]) = "e"
    THEN ExpValue(neg, fp, Len(fp.rest) >= 2 /\ fp.rest[2] = "-",
                  ReadDigits(Unsigned(Tail(fp.rest)), 0, 0))
    ELSE Finish(neg, fp.n, 0 - fp.cnt, fp.rest)

ReadFrac(neg, ip) ==
    ReadExp(neg, ip.cnt,
            IF ip.rest # <<>> /\ ip.rest[1] = "."
            THEN ReadDigits(Tail(ip.rest), ip.n, 0)
            ELSE [n |-> ip.n, cnt |-> 0, rest |-> ip.rest])

\* strconv.readFloat
ReadFloat(neg, s) == ReadFrac(neg, ReadDigits(s, 0, 0))

ParseSpecial(s0, sp) == IF sp.ok THEN sp ELSE ReadFloat(s0[1] = "-", Unsigned(s0))

\* ParseFloat with bit size 64: [ok, val]
ParseFloat(s0) == IF s0 = <<>> THEN NoFloat ELSE ParseSpecial(s0, Special(s0))

-----------------------------------------------------------------------------
(* path/filepath                                                           *)

RECURSIVE StripSlashes(_)
StripSlashes(p) == IF p # <<>> /\ p[Len(p)] = "/"
                   THEN StripSlashes(SubSeq(p, 1, Len(p) - 1))
                   ELSE p

RECURSIVE LastElement(_)
LastElement(p) == IF p = <<>> \/ p[Len(p)] = "/" THEN <<>>
                  ELSE LastElement(SubSeq(p, 1, Len(p) - 1)) \o <<p[Len(p)]>>

\* filepath.Base
Base(path) ==
    IF path = <<>> THEN <<".">>
    ELSE LET q == LastElement(StripSlashes(path))
         IN  IF q = <<>> THEN <<"/">> ELSE q

-----------------------------------------------------------------------------
(* sysfs                                                                   *)
(*                                                                         *)
(* fs.rootOK, fs.root : whether /sys/bus/pci/devices can be listed, and    *)
(*                      its entries in ReadDir's (sorted) order            *)
(* fs.dev[d]          : the directory of PCI device d:                     *)
(*   class    [ok, data]     the class attribute file                      *)
(*   totalvfs BOOLEAN        whether os.Stat of sriov_totalvfs succeeds    *)
(*   driver   [ok, target]   os.Readlink of the driver link                *)
(*   lstat    BOOLEAN        whether os.Lstat of the directory succeeds    *)
(*                           when VFs are enumerated (the device may have  *)
(*                           gone since the root was listed)               *)
(*   entries  sequence of [name, lstat, symlink, resolved: [ok, path]]:    *)
(*                           the directory's entries, sorted by name       *)
(*   net      [ok, names]    ioutil.ReadDir of the net subdirectory        *)
(*   sriov    [vf id -> [ok, files]]   the per-VF statistics directories   *)
(*                           sriov/<id>/stats of the device; files is a    *)
(*                           sequence of [name, ok, data]                  *)

sysBusPci == "/sys/bus/pci/devices"
sriovStatSubsystem == "sriovnet"
netClass == 131072      \* 0x020000

NoDir == [ok |-> FALSE, files |-> <<>>]

\* m with key k set to v
Put(m, k, v) == [x \in DOMAIN m \cup {k} |-> IF x = k THEN v ELSE m[x]]

\* the devices whose net directory lists the interface pfName
Owners(f, pfName) ==
    {d \in DOMAIN f.dev :
        /\ f.dev[d].net.ok
        /\ \E i \in 1..Len(f.dev[d].net.names) : f.dev[d].net.names[i] = pfName}

SriovDir(sriov, vfID) == IF vfID \in DOMAIN sriov THEN sriov[vfID] ELSE NoDir

StatDirOf(f, owners, vfID) ==
    IF owners = {} THEN NoDir
    ELSE SriovDir(f.dev[CHOOSE d \in owners : TRUE].sriov, vfID)

\* ioutil.ReadDir("/sys/class/net/<pfName>/device/sriov/<vfID>/stats/").
\* /sys/class/net/<name> is the interface directory net/<name> of the PCI
\* device that owns the interface, and its device link leads back to that
\* device; no interface has the empty name.
StatDir(f, pfName, vfID) == StatDirOf(f, Owners(f, pfName), vfID)

-----------------------------------------------------------------------------
(* The collector                                                           *)

\* getPCIDevs: the entries of the PCI root, none when it cannot be listed
getPCIDevs(f) == IF f.rootOK THEN f.root ELSE <<>>

\* lines 144-149 of isNetDevice
ClassMatches(deviceClass) == IF ~deviceClass.ok THEN FALSE ELSE deviceClass.val = netClass

\* isNetDevice on the class file of device d
isNetDevice(f, d) ==
    IF ~f.dev[d].class.ok THEN FALSE
    ELSE ClassMatches(ParseInt(TrimSpace(f.dev[d].class.data)))

\* isSriovNetPF without the check of sriov_totalvfs
isSriovNetPF_ClassOnly(f, pciAddr) == isNetDevice(f, pciAddr)

isSriovNetPF(f, pciAddr) ==
    IF ~isNetDevice(f, pciAddr) THEN FALSE
    ELSE IF ~f.dev[pciAddr].totalvfs THEN FALSE
    ELSE TRUE

\* the loop of getSriovPFs (lines 113-117)
RECURSIVE AppendPFs(_, _)
AppendPFs(f, devs) ==
    IF devs = <<>> THEN <<>>
    ELSE (IF isSriovNetPF(f, devs[1]) THEN <<devs[1]>> ELSE <<>>) \o AppendPFs(f, Tail(devs))

\* FoundPFs without the check of line 118
FoundPFs_NoEmptyCheck(devs, sriovPFs) ==
    IF Len(devs) = 0
    THEN [pfs |-> <<>>, err |-> "pci devices could not be found"]
    ELSE [pfs |-> sriovPFs, err |-> "nil"]

\* lines 110-121 of getSriovPFs
FoundPFs(devs, sriovPFs) ==
    IF Len(devs) = 0
    THEN [pfs |-> <<>>, err |-> "pci devices could not be found"]
    ELSE IF Len(sriovPFs) = 0
    THEN [pfs |-> sriovPFs, err |-> "no sriov net devices found on host"]
    ELSE [pfs |-> sriovPFs, err |-> "nil"]

\* getSriovPFs: [pfs, err]
getSriovPFs(f) == FoundPFs(getPCIDevs(f), AppendPFs(f, getPCIDevs(f)))

\* os.Readlink of the driver link: the empty string on error
Readlink(link) == IF link.ok THEN link.target ELSE <<>>

\* statReaderForPF with a single fixed reader
statReaderForPF_Fixed(f, pf) == "i40eReader"

\* statReaderForPF looking only at whether the driver link can be read
statReaderForPF_AnyDriver(f, pf) == IF f.dev[pf].driver.ok THEN "i40eReader" ELSE "nil"

\* statReaderForPF: "i40eReader" or "nil"
statReaderForPF(f, pf) ==
    IF Base(Readlink(f.dev[pf].driver)) = <<"i", "4", "0", "e">> THEN "i40eReader" ELSE "nil"

\* filepath.Glob(pfDir + "/virtfn*"): a PCI address holds no pattern
\* character, so the pattern is well formed and Glob returns no error
RECURSIVE Glob(_)
Glob(entries) ==
    IF entries = <<>> THEN <<>>
    ELSE (IF HasPrefix(entries[1].name, <<"v", "i", "r", "t", "f", "n">>)
          THEN <<entries[1]>> ELSE <<>>) \o Glob(Tail(entries))

\* AddVF without the test of the symlink mode bit
AddVF_AnyEntry(vfs, dir) ==
    IF dir.lstat /\ dir.resolved.ok
    THEN Put(vfs, Drop(dir.name, 6), Base(dir.resolved.path))
    ELSE vfs

\* lines 177-185 of vfList: one directory of the glob
AddVF(vfs, dir) ==
    IF dir.lstat /\ dir.symlink /\ dir.resolved.ok
    THEN Put(vfs, Drop(dir.name, 6), Base(dir.resolved.path))
    ELSE vfs

\* the loop of vfList (lines 176-186)
RECURSIVE AddVFs(_)
AddVFs(vfDirs) ==
    IF vfDirs = <<>> THEN <<>>
    ELSE AddVF(AddVFs(SubSeq(vfDirs, 1, Len(vfDirs) - 1)), vfDirs[Len(vfDirs)])

\* vfList: [err, vfs], vfs a function from VF id to VF address
vfList(f, pfAddress) ==
    IF ~f.dev[pfAddress].lstat
    THEN [err |-> TRUE, vfs |-> <<>>]
    ELSE [err |-> FALSE, vfs |-> AddVFs(Glob(f.dev[pfAddress].entries))]

\* lines 194-197 of getPFName; pfdir[0] of an empty listing is an index out of range
FirstName(pfdir) ==
    IF ~pfdir.ok THEN [panic |-> FALSE, name |-> ""]
    ELSE IF Len(pfdir.names) = 0 THEN [panic |-> TRUE, name |-> ""]
    ELSE [panic |-> FALSE, name |-> pfdir.names[1]]

\* getPFName: [panic, name]
getPFName(f, device) == FirstName(f.dev[device].net)

\* lines 219-223 of ReadStats
StoreStat(stats, name, value) == IF ~value.ok THEN stats ELSE Put(stats, name, value.val)

\* StatStep without strings.TrimSpace
StatStep_NoTrim(stats, file) ==
    IF ~file.ok THEN stats
    ELSE StoreStat(stats, file.name, ParseFloat(file.data))

\* lines 213-223 of ReadStats: one file of the statistics directory
StatStep(stats, file) ==
    IF ~file.ok THEN stats
    ELSE StoreStat(stats, file.name, ParseFloat(TrimSpace(file.data)))

\* the loop of ReadStats (lines 212-224)
RECURSIVE StatLoop(_)
StatLoop(files) ==
    IF files = <<>> THEN <<>>
    ELSE StatStep(StatLoop(SubSeq(files, 1, Len(files) - 1)), files[Len(files)])

\* lines 208-225 of ReadStats
StatsOf(dir) == IF ~dir.ok THEN <<>> ELSE StatLoop(dir.files)

\* i40eReader.ReadStats: a function from statistic name to value
ReadStats(f, pfName, vfID) == StatsOf(StatDir(f, pfName, vfID))

\* prometheus.MustNewConstMetric on the descriptor built at lines 87-91
MustNewConstMetric(name, v, pfName, id, address) ==
    [subsystem |-> sriovStatSubsystem, name |-> name, value |-> v,
     pfName |-> pfName, vf |-> id, vfAddress |-> address]

\* the loop over stats (lines 86-100): the metrics sent for one VF
SendVF(pfName, id, address, stats) ==
    {MustNewConstMetric(name, stats[name], pfName, id, address) : name \in DOMAIN stats}

\* SendAll of a collector that keeps what it sent and sends it again
SendAll_Retained(f, pfName, vfs) ==
    SetToBag(UNION {SendVF(pfName, id, vfs[id], ReadStats(f, pfName, id)) : id \in DOMAIN vfs})
    (+) [m \in {x \in DOMAIN prevSink : x.pfName = pfName} |-> prevSink[m]]

\* the loop over vfs (lines 84-101): the metrics sent for one PF
SendAll(f, pfName, vfs) ==
    SetToBag(UNION {SendVF(pfName, id, vfs[id], ReadStats(f, pfName, id)) : id \in DOMAIN vfs})

Called(op, pf, ids) == {<<op, pf, id>> : id \in ids}

\* lines 83-101: the body from getPFName on
ResolveName(f, pf, vfs, pn) ==
    IF pn.panic
    THEN [next |-> "panic", sent |-> EmptyBag,
          calls |-> Called("vfList", pf, {<<>>}) \cup Called("getPFName", pf, {<<>>})]
    ELSE [next |-> "continue", sent |-> SendAll(f, pn.name, vfs),
          calls |-> Called("vfList", pf, {<<>>}) \cup Called("getPFName", pf, {<<>>})
                       \cup Called("ReadStats", pf, DOMAIN vfs)]

\* lines 79-101: the body from vfList on
EnumerateVFs(f, pf, vl) ==
    IF vl.err
    THEN [next |-> "continue", sent |-> EmptyBag, calls |-> Called("vfList", pf, {<<>>})]
    ELSE ResolveName(f, pf, vl.vfs, getPFName(f, pf))

\* one iteration of the loop of Update (lines 74-102) for pf: [next, sent,
\* calls], next being "continue" or "panic", sent the metrics sent, calls the
\* helpers called after statReaderForPF
LoopBody(f, pf) ==
    IF statReaderForPF(f, pf) = "nil"
    THEN [next |-> "continue", sent |-> EmptyBag, calls |-> {}]
    ELSE EnumerateVFs(f, pf, vfList(f, pf))

-----------------------------------------------------------------------------
(* Update (lines 69-104), one step per iteration of its loop over pfList   *)

MaxPasses == 2

\* lines 69-73: the host calls Update with the channel of a new pass
UpdateBegin ==
    /\ pc \in {"idle", "returned"}
    /\ passes < MaxPasses
    /\ passes' = passes + 1
    /\ prevSink' = sink
    /\ prevResult' = result
    /\ sink' = EmptyBag
    /\ calls' = {}
    /\ LET r == getSriovPFs(fs)
       IN  /\ pfList' = r.pfs
           /\ idx' = 1
           /\ IF r.err # "nil"
              THEN pc' = "returned" /\ result' = r.err
              ELSE pc' = "loop" /\ result' = "none"
    /\ UNCHANGED <<fs, ret>>

\* lines 74-102: the loop body for pfList[idx]
UpdatePF ==
    /\ pc = "loop"
    /\ idx <= Len(pfList)
    /\ LET b == LoopBody(fs, pfList[idx])
       IN  /\ sink' = sink (+) b.sent
           /\ calls' = calls \cup b.calls
           /\ IF b.next = "panic"
              THEN pc' = "panicked" /\ result' = "panic" /\ idx' = idx
              ELSE pc' = "loop" /\ result' = result /\ idx' = idx + 1
    /\ UNCHANGED <<fs, pfList, passes, prevSink, prevResult, ret>>

\* line 103
UpdateReturn ==
    /\ pc = "loop"
    /\ idx > Len(pfList)
    /\ pc' = "returned"
    /\ result' = "nil"
    /\ UNCHANGED <<fs, pfList, idx, sink, calls, passes, prevSink, prevResult, ret>>

-----------------------------------------------------------------------------
(* The snapshots the passes run on                                         *)

MaxDevs == 2

PciNames == <<"0000:03:00.0", "0000:04:00.0", "0000:05:00.0", "0000:06:00.0">>
NetNames == <<"eth0", "eth1", "eth2", "eth3">>

File(ok, data) == [ok |-> ok, data |-> data]
Link(ok, target) == [ok |-> ok, target |-> target]
Entry(name, lstat, symlink, ok, path) ==
    [name |-> name, lstat |-> lstat, symlink |-> symlink,
     resolved |-> [ok |-> ok, path |-> path]]
StatFile(name, ok, data) == [name |-> name, ok |-> ok, data |-> data]
Dir(files) == [ok |-> TRUE, files |-> files]
Device(class, totalvfs, driver, lstat, entries, net, sriov) ==
    [class |-> class, totalvfs |-> totalvfs, driver |-> driver, lstat |-> lstat,
     entries |-> entries, net |-> net, sriov |-> sriov]

ClassNet == File(TRUE, <<"0", "x", "0", "2", "0", "0", "0", "0", "\n">>)
ClassDisplay == File(TRUE, <<"0", "x", "0", "3", "0", "0", "0", "0", "\n">>)
ClassUnreadable == File(FALSE, <<>>)

DriverI40e == Link(TRUE, <<".", ".", "/", ".", ".", "/", ".", ".", "/", ".", ".", "/", "b", "u", "s", "/", "p", "c", "i", "/", "d", "r", "i", "v", "e", "r", "s", "/", "i", "4", "0", "e">>)
DriverIxgbe == Link(TRUE, <<".", ".", "/", ".", ".", "/", ".", ".", "/", ".", ".", "/", "b", "u", "s", "/", "p", "c", "i", "/", "d", "r", "i", "v", "e", "r", "s", "/", "i", "x", "g", "b", "e">>)
DriverNone == Link(FALSE, <<>>)

Vf0Addr == <<"0", "0", "0", "0", ":", "0", "3", ":", "0", "2", ".", "0">>
Vf3Addr == <<"0", "0", "0", "0", ":", "0", "3", ":", "0", "2", ".", "3">>
VfParent == <<"/", "s", "y", "s", "/", "d", "e", "v", "i", "c", "e", "s", "/", "p", "c", "i", "0", "0", "0", "0", ":", "0", "0", "/", "0", "0", "0", "0", ":", "0", "0", ":", "0", "3", ".", "0", "/">>

Vendor == Entry(<<"v", "e", "n", "d", "o", "r">>, TRUE, FALSE, TRUE, <<>>)
Virtfn0 == Entry(<<"v", "i", "r", "t", "f", "n", "0">>, TRUE, TRUE, TRUE, VfParent \o Vf0Addr)
Virtfn1Broken == Entry(<<"v", "i", "r", "t", "f", "n", "1">>, TRUE, TRUE, FALSE, <<>>)
Virtfn3 == Entry(<<"v", "i", "r", "t", "f", "n", "3">>, TRUE, TRUE, TRUE, VfParent \o Vf3Addr)

EntriesNone == <<Vendor>>
EntriesTwo == <<Vendor, Virtfn0, Virtfn3>>
EntriesBroken == <<Vendor, Virtfn0, Virtfn1Broken>>

Id0 == <<"0">>
Id3 == <<"3">>

\* sriov/0/stats holds rx_bytes and an unparsable file, sriov/3/stats an
\* unreadable file beside a good one
StatsBoth ==
    (Id0 :> Dir(<<StatFile("corrupt", TRUE, <<"n", "o", "t", "a", "n", "u", "m", "b", "e", "r">>),
                  StatFile("rx_bytes", TRUE, <<"1", "0", "2", "4", "\n">>)>>))
    @@ (Id3 :> Dir(<<StatFile("rx_bytes", TRUE, <<"7">>),
                     StatFile("tx_bytes", FALSE, <<>>)>>))

\* sriov/0/stats cannot be listed
StatsOne ==
    (Id0 :> NoDir) @@ (Id3 :> Dir(<<StatFile("tx_packets", TRUE, <<" ", "1", "2", " ", "\n">>)>>))

NetNone == [ok |-> FALSE, names |-> <<>>]
NetEmpty == [ok |-> TRUE, names |-> <<>>]
NetOf(k) == [ok |-> TRUE, names |-> <<NetNames[k]>>]

\* a PF of the i40e driver with two VFs and statistics
Healthy(k) == Device(ClassNet, TRUE, DriverI40e, TRUE, EntriesTwo, NetOf(k), StatsBoth)

\* the k-th device of a snapshot: not a PF, a PF of another driver, a PF
\* that has gone when its VFs are enumerated, or a PF of the i40e driver
Profiles(k) ==
    {[Healthy(k) EXCEPT !.class = c] : c \in {ClassUnreadable, ClassDisplay}}
    \cup {[Healthy(k) EXCEPT !.totalvfs = FALSE]}
    \cup {[Healthy(k) EXCEPT !.driver = d] : d \in {DriverNone, DriverIxgbe}}
    \cup {[Healthy(k) EXCEPT !.lstat = FALSE]}
    \cup {[Healthy(k) EXCEPT !.entries = e, !.net = n] :
             e \in {EntriesNone, EntriesTwo, EntriesBroken},
             n \in {NetNone, NetEmpty, NetOf(k)}}
    \cup {[Healthy(k) EXCEPT !.sriov = StatsOne]}

RECURSIVE DevMaps(_)
DevMaps(n) ==
    IF n = 0 THEN {<<>>}
    ELSE {g @@ (PciNames[n] :> p) : g \in DevMaps(n - 1), p \in Profiles(n)}

Listing(n) == SubSeq(PciNames, 1, n)

\* the root cannot be listed
Unlistable == [rootOK |-> FALSE, root |-> <<>>, dev |-> (PciNames[1] :> Healthy(1))]

\* the snapshots whose root lists n devices
Snapshots(n) == {[rootOK |-> TRUE, root |-> Listing(n), dev |-> g] : g \in DevMaps(n)}

Idle ==
    /\ pc = "idle"
    /\ pfList = <<>>
    /\ idx = 1
    /\ sink = EmptyBag
    /\ result = "none"
    /\ calls = {}
    /\ passes = 0
    /\ prevSink = EmptyBag
    /\ prevResult = "none"
    /\ ret = <<>>

Init == (fs = Unlistable \/ \E n \in 0..MaxDevs : fs \in Snapshots(n)) /\ Idle

Next == UpdateBegin \/ UpdatePF \/ UpdateReturn

Spec == Init /\ [][Next]_vars

-----------------------------------------------------------------------------
(* Properties of a pass                                                    *)

InPass == pc \in {"loop", "returned", "panicked"}
PassEnded == pc \in {"returned", "panicked"}
ErrorTexts == {"pci devices could not be found", "no sriov net devices found on host"}

I40e == <<"i", "4", "0", "e">>

\* the driver link of pf leads to the i40e driver
DriverIsI40e(pf) == fs.dev[pf].driver.ok /\ Base(fs.dev[pf].driver.target) = I40e

\* the interface name of pf, empty when the net directory gives none
NameOf(pf) == IF fs.dev[pf].net.ok /\ fs.dev[pf].net.names # <<>>
              THEN fs.dev[pf].net.names[1] ELSE ""

NetUnlistableOrEmpty(pf) == ~fs.dev[pf].net.ok \/ fs.dev[pf].net.names = <<>>

\* one observation per (VF, statistic) of pf
Triples(pf) ==
    UNION {{[subsystem |-> "sriovnet", name |-> n,
             value |-> ReadStats(fs, NameOf(pf), id)[n],
             pfName |-> NameOf(pf), vf |-> id, vfAddress |-> vfList(fs, pf).vfs[id]] :
               n \in DOMAIN ReadStats(fs, NameOf(pf), id)} :
           id \in DOMAIN vfList(fs, pf).vfs}

\* the observations of the first k PFs whose VF enumeration succeeds
RECURSIVE SumEnumerated(_)
SumEnumerated(k) ==
    IF k = 0 THEN EmptyBag
    ELSE SumEnumerated(k - 1)
         (+) (IF ~vfList(fs, pfList[k]).err THEN SetToBag(Triples(pfList[k])) ELSE EmptyBag)

\* the same, of the PFs of the i40e driver only
RECURSIVE SumI40e(_)
SumI40e(k) ==
    IF k = 0 THEN EmptyBag
    ELSE SumI40e(k - 1)
         (+) (IF DriverIsI40e(pfList[k]) /\ ~vfList(fs, pfList[k]).err
              THEN SetToBag(Triples(pfList[k])) ELSE EmptyBag)

\* the part of bag b labelled with interface n
ShareOf(b, n) == [m \in {x \in DOMAIN b : x.pfName = n} |-> b[m]]

NoQualifyingPF ==
    ~fs.rootOK \/ \A i \in 1..Len(fs.root) : ~isSriovNetPF(fs, fs.root[i])

\* C1: when the PCI root cannot be listed, or no listed entry qualifies as an
\* SR-IOV network PF, the pass has returned a non-nil error and has sent no
\* metric.
C1_PassFatalEmitsNothing ==
    (passes > 0 /\ NoQualifyingPF) =>
        (pc = "returned" /\ result \in ErrorTexts /\ sink = EmptyBag)

C1_Witness ==
    /\ pc = "returned"
    /\ fs.rootOK
    /\ Len(fs.root) = 2
    /\ NoQualifyingPF
    /\ result = "no sriov net devices found on host"

\* C2 as stated, on the passes that return: in every pass where discovery
\* succeeds, what was sent is one observation per (PF, VF, statistic) over
\* every discovered PF whose VF enumeration succeeds.
C2_EveryDiscoveredPF ==
    (pc = "returned" /\ result = "nil") => sink = SumEnumerated(Len(pfList))

\* C2, amended: at every point of a pass, what was sent is one observation
\* per (PF, VF, statistic) over the PFs already handled whose driver is i40e
\* and whose VF enumeration succeeds, labelled with the PF's interface name,
\* the VF id and the VF address; a pass that returns has handled every
\* discovered PF, and a pass that panics stopped at an i40e PF whose net
\* directory lists no entry.
C2_I40ePFsOnly ==
    InPass =>
        /\ sink = SumI40e(idx - 1)
        /\ (pc = "returned" /\ result = "nil") => idx = Len(pfList) + 1
        /\ pc = "panicked" =>
              /\ idx \in 1..Len(pfList)
              /\ DriverIsI40e(pfList[idx])
              /\ fs.dev[pfList[idx]].net.ok
              /\ fs.dev[pfList[idx]].net.names = <<>>

C2_Witness ==
    /\ pc = "returned"
    /\ result = "nil"
    /\ Len(pfList) = 2
    /\ ~DriverIsI40e(pfList[1])
    /\ DriverIsI40e(pfList[2])
    /\ BagCardinality(sink) = 2
    /\ \E m \in DOMAIN sink :
          /\ m.name = "rx_bytes" /\ m.value = Float("finite", 1024, 0)
          /\ m.pfName = "eth1" /\ m.vf = Id0 /\ m.vfAddress = Vf0Addr

\* C3: for every discovered PF that the pass resolves the name of and whose
\* net directory cannot be listed or lists no entry, getPFName returns the
\* empty string and the pass does not abort.
C3_EmptyNetNeverFatal ==
    \A i \in 1..Len(pfList) :
        (<<"getPFName", pfList[i], <<>>>> \in calls /\ NetUnlistableOrEmpty(pfList[i])) =>
            /\ getPFName(fs, pfList[i]) = [panic |-> FALSE, name |-> ""]
            /\ pc # "panicked"

\* a PF is bad when its VF enumeration fails, its name is unresolved or the
\* statistics directory of one of its VFs cannot be listed
Bad(pf) ==
    \/ vfList(fs, pf).err
    \/ NetUnlistableOrEmpty(pf)
    \/ \E id \in DOMAIN vfList(fs, pf).vfs : ~StatDir(fs, NameOf(pf), id).ok

\* C4: at the end of a pass, what was sent for every PF that is not bad is
\* what a pass over that PF alone sends, wherever the bad PFs are listed.
C4_Isolation ==
    (PassEnded /\ result \notin ErrorTexts) =>
        \A i \in 1..Len(pfList) :
            ~Bad(pfList[i]) =>
                ShareOf(sink, NameOf(pfList[i])) = LoopBody(fs, pfList[i]).sent

\* C5: a pass ends with an error exactly when discovery fails, and with nil
\* whenever at least one PF is discovered.
C5_ResultFollowsDiscovery ==
    PassEnded =>
        /\ result \in ErrorTexts <=> getSriovPFs(fs).err # "nil"
        /\ Len(getSriovPFs(fs).pfs) >= 1 => result = "nil"

C10_GateState ==
    InPass =>
        /\ \A i \in 1..Len(pfList) :
              ~DriverIsI40e(pfList[i]) =>
                  /\ \A c \in calls : c[2] # pfList[i]
                  /\ ShareOf(sink, NameOf(pfList[i])) = EmptyBag
                  /\ ~(pc = "panicked" /\ idx = i)
        /\ (pc = "returned" /\ pfList # <<>>
               /\ \A i \in 1..Len(pfList) : ~DriverIsI40e(pfList[i]))
              => (result = "nil" /\ sink = EmptyBag)

\* the part of C10 that holds of every step of the loop
C10_GateStep ==
    (pc = "loop" /\ idx <= Len(pfList) /\ ~DriverIsI40e(pfList[idx])) =>
        (pc' = "loop" /\ idx' = idx + 1 /\ sink' = sink /\ calls' = calls /\ result' = result)

\* C10: a discovered PF whose driver link is missing or leads to another
\* driver has no VF enumeration, name resolution or statistics read made for
\* it and no metric sent for it; the loop step that handles it sends nothing
\* and moves on to the next PF; no pass ends by a panic at such a PF, and a
\* pass over such PFs only returns nil.
C10_DriverGate == []C10_GateState /\ [][C10_GateStep]_vars

C10_Witness ==
    /\ pc = "returned"
    /\ result = "nil"
    /\ Len(pfList) = 2
    /\ fs.dev[pfList[1]].driver = DriverIxgbe
    /\ fs.dev[pfList[1]].entries = EntriesTwo
    /\ DriverIsI40e(pfList[2])
    /\ BagCardinality(sink) = 2

-----------------------------------------------------------------------------
(* The helpers on their own inputs                                         *)

Returned(op, args, val) == [op |-> op, args |-> args, val |-> val]

\* the subsequence of seq at the positions in S
RECURSIVE Pick(_, _)
Pick(seq, S) ==
    IF seq = <<>> THEN <<>>
    ELSE Pick(SubSeq(seq, 1, Len(seq) - 1), S)
         \o (IF Len(seq) \in S THEN <<seq[Len(seq)]>> ELSE <<>>)

SubSeqs(seq, max) ==
    {Pick(seq, S) : S \in {T \in SUBSET (1..Len(seq)) : Cardinality(T) <= max}}

(* getSriovPFs over class files of many contents *)

ClassAccepted ==
    {<<"0", "x", "0", "2", "0", "0", "0", "0", "\n">>,
     <<"1", "3", "1", "0", "7", "2">>,
     <<" ", "0", "X", "2", "0", "0", "0", "0", "\t", "\n">>,
     <<"0", "4", "0", "0", "0", "0", "0">>,
     <<"0", "x", "0", "2", "_", "0", "0", "0", "0">>,
     <<"+", "0", "x", "0", "2", "0", "0", "0", "0">>}

ClassNotInteger ==
    {<<>>,
     <<"n", "o", "t", "a", "n", "u", "m", "b", "e", "r">>,
     <<"0", "x">>,
     <<"0", "x", "0", "2", "0", "0", "0", "0", "_">>}

ClassOtherInteger ==
    {<<"0", "x", "0", "3", "0", "0", "0", "0", "\n">>,
     <<"0", "x", "0", "2", "0", "0", "0", "1", "\n">>,
     <<"0", "2", "0", "0", "0", "0">>}

ClassFiles ==
    {ClassUnreadable}
    \cup {File(TRUE, t) : t \in ClassAccepted \cup ClassNotInteger \cup ClassOtherInteger}

ProfilesPF(k) ==
    {[Healthy(k) EXCEPT !.class = c, !.totalvfs = t] : c \in ClassFiles, t \in BOOLEAN}

RECURSIVE DevMapsPF(_)
DevMapsPF(n) ==
    IF n = 0 THEN {<<>>}
    ELSE {g @@ (PciNames[n] :> p) : g \in DevMapsPF(n - 1), p \in ProfilesPF(n)}

SnapshotsPF(n) == {[rootOK |-> TRUE, root |-> Listing(n), dev |-> g] : g \in DevMapsPF(n)}

CallGetSriovPFs ==
    /\ ret' = Returned("getSriovPFs", <<>>, getSriovPFs(fs))
    /\ UNCHANGED <<fs, pc, pfList, idx, sink, result, calls, passes, prevSink, prevResult>>

InitPF == (\E n \in 0..MaxDevs : fs \in SnapshotsPF(n)) /\ Idle
NextPF == CallGetSriovPFs
SpecPF == InitPF /\ [][NextPF]_vars

(* vfList over PF directories of many entries *)

MaxEntries == 3

Vf10Addr == <<"0", "0", "0", "0", ":", "0", "3", ":", "0", "3", ".", "2">>
PfDir == <<"/", "s", "y", "s", "/", "d", "e", "v", "i", "c", "e", "s", "/", "p", "c", "i", "0", "0", "0", "0", ":", "0", "0", "/", "0", "0", "0", "0", ":", "0", "0", ":", "0", "3", ".", "0", "/", "0", "0", "0", "0", ":", "0", "3", ":", "0", "0", ".", "0", "/">>

VirtfnBare == Entry(<<"v", "i", "r", "t", "f", "n">>, TRUE, TRUE, TRUE, VfParent \o Vf10Addr)
Virtfn10 == Entry(<<"v", "i", "r", "t", "f", "n", "1", "0">>, TRUE, TRUE, TRUE, VfParent \o Vf10Addr)
Virtfn2Dir == Entry(<<"v", "i", "r", "t", "f", "n", "2">>, TRUE, FALSE, TRUE, PfDir \o <<"v", "i", "r", "t", "f", "n", "2">>)
Virtfn4Gone == Entry(<<"v", "i", "r", "t", "f", "n", "4">>, FALSE, TRUE, FALSE, <<>>)

\* in the order of the directory listing
EntryPool == <<Vendor, VirtfnBare, Virtfn0, Virtfn1Broken, Virtfn10, Virtfn2Dir,
               Virtfn3, Virtfn4Gone>>

SnapshotsVF ==
    {[rootOK |-> TRUE, root |-> Listing(1),
      dev |-> (PciNames[1] :> [Healthy(1) EXCEPT !.entries = e, !.lstat = l])] :
        e \in SubSeqs(EntryPool, MaxEntries), l \in BOOLEAN}

CallVfList ==
    /\ \E pf \in DOMAIN fs.dev : ret' = Returned("vfList", <<pf>>, vfList(fs, pf))
    /\ UNCHANGED <<fs, pc, pfList, idx, sink, result, calls, passes, prevSink, prevResult>>

InitVF == fs \in SnapshotsVF /\ Idle
NextVF == CallVfList
SpecVF == InitVF /\ [][NextVF]_vars

(* ReadStats over statistics directories of many files *)

MaxFiles == 3

FilePool ==
    <<StatFile("corrupt", TRUE, <<"n", "o", "t", "a", "n", "u", "m", "b", "e", "r">>),
      StatFile("rx_bytes", TRUE, <<"1", "0", "2", "4", "\n">>),
      StatFile("rx_dropped", TRUE, <<>>),
      StatFile("rx_packets", TRUE, <<" ", "7", " ">>),
      StatFile("tx_bytes", FALSE, <<>>),
      StatFile("tx_dropped", TRUE, <<"0", "x", "1", "0">>),
      StatFile("tx_packets", TRUE, <<"1", ".", "5", "e", "3", "\n">>)>>

StatDirs == {NoDir} \cup {Dir(files) : files \in SubSeqs(FilePool, MaxFiles)}

SnapshotsStats ==
    {[rootOK |-> TRUE, root |-> Listing(1),
      dev |-> (PciNames[1] :> [Healthy(1) EXCEPT !.sriov = (Id0 :> d)])] : d \in StatDirs}

CallReadStats ==
    /\ \E pfName \in {"", "eth0", "eth1"}, vfID \in {Id0, Id3} :
          ret' = Returned("ReadStats", <<pfName, vfID>>, ReadStats(fs, pfName, vfID))
    /\ UNCHANGED <<fs, pc, pfList, idx, sink, result, calls, passes, prevSink, prevResult>>

InitStats == fs \in SnapshotsStats /\ Idle
NextStats == CallReadStats
SpecStats == InitStats /\ [][NextStats]_vars

-----------------------------------------------------------------------------
(* Properties of the helpers                                               *)

Range(seq) == {seq[i] : i \in 1..Len(seq)}

\* the class file of d holds an integer equal to the network class code
ClassIsNet(d) == fs.dev[d].class.ok /\ fs.dev[d].class.data \in ClassAccepted

\* C6: a device is accepted exactly when its class file is readable and holds
\* an integer equal to 0x020000 and its sriov_totalvfs file exists; a class
\* file that holds no integer is never accepted; getSriovPFs returns the
\* accepted entries in the order of the listing.
C6_Acceptance ==
    /\ \A d \in DOMAIN fs.dev :
          /\ isSriovNetPF(fs, d) <=> (ClassIsNet(d) /\ fs.dev[d].totalvfs)
          /\ fs.dev[d].class.data \in ClassNotInteger => ~isSriovNetPF(fs, d)
    /\ ret # <<>> =>
          /\ ret.op = "getSriovPFs"
          /\ Range(ret.val.pfs) = {d \in Range(fs.root) : ClassIsNet(d) /\ fs.dev[d].totalvfs}
          /\ \A i, j \in 1..Len(ret.val.pfs) :
                i < j => IndexOf(ret.val.pfs[i], fs.root) < IndexOf(ret.val.pfs[j], fs.root)

C6_Witness ==
    /\ ret # <<>>
    /\ Len(fs.root) = 2
    /\ fs.dev[fs.root[1]].class.data = <<"n", "o", "t", "a", "n", "u", "m", "b", "e", "r">>
    /\ fs.dev[fs.root[1]].totalvfs
    /\ fs.dev[fs.root[2]].class.data = <<" ", "0", "X", "2", "0", "0", "0", "0", "\t", "\n">>
    /\ ret.val = [pfs |-> <<fs.root[2]>>, err |-> "nil"]

\* the entries of the directory of pf that vfList takes as VFs
TakenAsVF(pf) ==
    {e \in Range(fs.dev[pf].entries) :
        /\ Len(e.name) >= 6
        /\ SubSeq(e.name, 1, 6) = <<"v", "i", "r", "t", "f", "n">>
        /\ e.lstat /\ e.symlink /\ e.resolved.ok}

\* the last component of the resolved targets of the model
AddressOf(e) == SubSeq(e.resolved.path, Len(VfParent) + 1, Len(e.resolved.path))

NumberIn(data) ==
    IF data = <<"1", "0", "2", "4", "\n">> THEN Float("finite", 1024, 0)
    ELSE IF data = <<" ", "7", " ">> THEN Float("finite", 7, 0)
    ELSE IF data = <<"1", ".", "5", "e", "3", "\n">> THEN Float("finite", 15, 2)
    ELSE Float("NaN", 0, 0)

HoldsNumber(file) == file.ok /\ file.data \in {<<"1", "0", "2", "4", "\n">>, <<" ", "7", " ">>, <<"1", ".", "5", "e", "3", "\n">>}

\* the statistics directory that the arguments of the call name
DirRead == IF ret.args = <<"eth0", Id0>> THEN fs.dev[PciNames[1]].sriov[Id0] ELSE NoDir

\* C8: ReadStats returns the sample whose keys are the files of the statistics
\* directory that are readable and hold a number, each with its number; any
\* other file removes only its own key, and a directory that cannot be listed
\* gives the empty sample.
C8_StatSample ==
    ret # <<>> =>
        /\ ret.op = "ReadStats"
        /\ DOMAIN ret.val = {file.name : file \in {x \in Range(DirRead.files) : HoldsNumber(x)}}
        /\ \A file \in Range(DirRead.files) :
              HoldsNumber(file) => ret.val[file.name] = NumberIn(file.data)
        /\ ~DirRead.ok => ret.val = <<>>

C8_Witness ==
    /\ ret # <<>>
    /\ ret.args = <<"eth0", Id0>>
    /\ DirRead.files = <<StatFile("corrupt", TRUE, <<"n", "o", "t", "a", "n", "u", "m", "b", "e", "r">>),
                         StatFile("rx_bytes", TRUE, <<"1", "0", "2", "4", "\n">>)>>
    /\ ret.val = ("rx_bytes" :> Float("finite", 1024, 0))

=============================================================================
